---- MODULE Spec2Model ----
(***************************************************************************)
(* Model of the vigils server (express app with a replicated BDO store).   *)
(* The server keeps one in-memory snapshot (vigilsData), pushes it whole   *)
(* to three BDO endpoints after every mutation, and at startup adopts or   *)
(* creates a remote identity and pulls the snapshot back.                  *)
(*                                                                         *)
(* JavaScript runs each handler to completion between awaits, so every     *)
(* action below is one synchronous stretch of a handler: from one await to *)
(* the next.  The bdo-js and sessionless libraries and the endpoints are   *)
(* the environment: their outcomes are drawn with \E.                      *)
(***************************************************************************)
EXTENDS Integers, Sequences, FiniteSets, TLC

\* ---------------------------------------------------------------- bounds
MaxTime == 1        \* Date.now() ranges over 0..MaxTime
MaxRand == 0        \* Math.random() suffix ranges over 0..MaxRand
MaxData == 2        \* request bodies range over 1..MaxData
MaxVigils == 2      \* the store holds at most this many records
MaxUuid == 2        \* identifiers an endpoint may assign: 1..MaxUuid
MaxKey == 1         \* keypairs generateKeys may produce: 1..MaxKey
MaxInFlight == 2    \* request handlers that may overlap
MaxRestarts == 1    \* process restarts
MaxSearches == 2    \* search handlers that may overlap
MaxIds == 2         \* identifiers the page stores in localStorage

\* ------------------------------------------------------ program constants
NumServers == 3         \* BDO_SERVERS.length
TwoMinutes == 120000    \* 2 * 60 * 1000

Servers == 1..NumServers
Times == 0..MaxTime
Rands == 0..MaxRand
DataVals == 1..MaxData
UuidVals == 1..MaxUuid
KeyVals == 1..MaxKey
Slots == 1..MaxInFlight
SearchSlots == 1..MaxSearches

\* null is modelled by 0 for keys and uuids and by -1 for times
NullUuid == 0
NullTime == -1

\* the identifier `vigil-${Date.now()}-${Math.random()...}`
VigilIds == Times \X Rands

VARIABLES
    keysFile,       \* .bdo-keys.json on disk
    keys,           \* let keys
    bdoUserUUID,    \* let bdoUserUUID
    vigilsData,     \* let vigilsData
    remote,         \* what each endpoint stores, per endpoint
    now,            \* Date.now()
    pc,             \* position of the startup IIFE
    initResults,    \* results of initializeBDO
    pullIdx,        \* loop position of loadVigilsFromBDO
    reqs,           \* request handlers suspended in syncVigilsToBDO
    response,       \* the HTTP response the last step sent, if it sent one
    \* history of the startup IIFE, kept until it reaches app.listen
    createCalls,    \* endpoints on which createUser was called
    pullLog,        \* <<endpoint, uuid, outcome>> of every getBDO call, in order
    pullResult,     \* what loadVigilsFromBDO returned
    \* history of the current process lifetime
    startFile,      \* keysFile as it was when the process started
    updateCalls,    \* the uuid argument of every updateBDO call
    admitted,       \* req.query of the delete the last step let through, if any
    restarts,
    zipcodeCoordinatesCache,    \* const zipcodeCoordinatesCache
    searches,       \* search handlers suspended in getZipcodeCoordinates
    events,         \* what the last step did in getZipcodeCoordinates, in order
    resolved,       \* <<zipcode, whether a coordinate was returned>> of every
                    \* call of getZipcodeCoordinates that has returned
    localStorage,   \* the browser's localStorage: key -> list of identifiers
    pushes,         \* history of the updateBDO calls of this process
    stopped,        \* history: the process as it was when it last stopped
    submitted       \* per identifier, the bodies created under it since it was
                    \* last deleted in this process

vars == <<keysFile, keys, bdoUserUUID, vigilsData, remote, now, pc, initResults,
          pullIdx, reqs, response, startFile, createCalls, updateCalls,
          pullLog, pullResult, admitted, restarts, zipcodeCoordinatesCache,
          searches, events, resolved, submitted, localStorage, pushes,
          stopped>>

\* ------------------------------------------------------------- data shapes
NoKeys == [exists |-> FALSE, key |-> 0, uuid |-> NullUuid]

EmptyStore == [vigils |-> <<>>,
               metadata |-> [lastUpdated |-> NullTime, totalVigils |-> 0]]

NoBDO == [has |-> FALSE, uuid |-> NullUuid, bdo |-> EmptyStore]

\* A zipcode is the sequence of its characters: 0..9 for the digits, NonDigit
\* for any other character; a missing zipcode (undefined) is the empty sequence
NonDigit == 10
NoZipcode == <<>>

\* no record; also the shape of a record: the fields of req.body.data (data
\* stands for location, date, time, description, contact and organizer), with
\* uuid and createdAt
NoVigil == [uuid |-> <<0, 0>>, createdAt |-> NullTime, data |-> 0,
            zipcode |-> NoZipcode, submittedAt |-> NullTime, link |-> 0,
            date |-> 0]

\* NaN: Math.abs(now - parseInt(timestamp)) when the timestamp is no number,
\* parseFloat of a missing latitude or longitude
NaN == -1

\* no delete was let through
NoQuery == [uuid |-> <<0, 0>>, hasParams |-> FALSE, timeDiff |-> 0,
            sigValid |-> FALSE]

\* a coordinate: { lat, lon }; getZipcodeCoordinates returns null for none
NoCoords == [lat |-> NaN, lon |-> NaN, null |-> TRUE]

\* a search handler: its zipcode, the position of its loop (phase, the
\* coordinate of the search zipcode, the records still to visit, the entries
\* pushed so far) and the zipcode whose fetch it awaits
IdleSearch == [phase |-> "idle", zipcode |-> NoZipcode, searchCoords |-> NoCoords,
               allVigils |-> <<>>, vigilsWithDistance |-> <<>>, seen |-> <<>>]

\* a request handler: the request and how far its push loop has come; while
\* its updateBDO call is under way (calling), the snapshot the call carries
\* (sent); as history, the handlers whose call to the same endpoint was under
\* way when this one was made (behind), and whether a call made later has
\* reached the endpoint before this one (late)
IdleReq == [kind |-> "idle", uuid |-> <<0, 0>>, results |-> <<>>,
            accepted |-> {}, vigil |-> NoVigil, calling |-> FALSE,
            sent |-> EmptyStore, behind |-> {}, late |-> FALSE]

\* history of the pushes: rejected, some updateBDO call of this process
\* failed; lastAll, the push that ended last was accepted by every endpoint;
\* stale, the endpoints whose snapshot is that of a call that arrived after
\* a call made later
NoPushes == [rejected |-> FALSE, lastAll |-> FALSE, stale |-> {}]

\* history of the last stop: whether the push that ended last had been
\* accepted by every endpoint, the store at that moment, and whether no
\* create or delete was in progress
NeverStopped == [lastAll |-> FALSE, store |-> EmptyStore, idle |-> FALSE]

\* a response: its status, the syncedTo list and count of a create or delete,
\* the record of a create or get, the list of a search; the rest is history of
\* the request: accepted, the endpoints whose updateBDO call resolved; query,
\* the parameters of an admin request that was answered at once; verified,
\* whether verifySignature was called for it; searchCoords and seen, what a
\* search got from getZipcodeCoordinates for its zipcode and for each record
NoResponse == [kind |-> "none", status |-> 0, uuid |-> <<0, 0>>,
               syncedTo |-> <<>>, total |-> 0, vigil |-> NoVigil,
               accepted |-> {}, query |-> NoQuery, verified |-> FALSE,
               vigils |-> <<>>, searchCoords |-> NoCoords, seen |-> <<>>,
               today |-> 0, todayStr |-> 0, localDate |-> 0]


\* Object.keys(obj).length
NumKeys(obj) == Cardinality(DOMAIN obj)

\* obj[k] = v on a plain object: adds the key or replaces its value
Put(obj, k, v) == [x \in (DOMAIN obj) \cup {k} |-> IF x = k THEN v ELSE obj[x]]

\* delete obj[k]
Remove(obj, k) == [x \in (DOMAIN obj) \ {k} |-> obj[x]]

\* ------------------------------------------------------ identity persistence
\* saveKeys: the object written to KEYS_FILE, `uuid ? { ...k, uuid } : k`
dataToSave(k, uuid) == IF uuid # NullUuid THEN [k EXCEPT !.uuid = uuid] ELSE k

\* getKeys: the value of `keys` after the call
getKeys(mem, file) == IF ~mem.exists /\ file.exists THEN file ELSE mem

\* a keypair as sessionless.generateKeys hands it to saveKeys
NewKeys(kv) == [exists |-> TRUE, key |-> kv, uuid |-> NullUuid]

\* ------------------------------------------------------------- initializeBDO
\* mutant: the stored uuid is ignored
NeverStoredUUID(k) == FALSE

\* `if (keys && keys.uuid)`
HasStoredUUID(k) == k.exists /\ k.uuid # NullUuid

\* mutant: only the first endpoint is reported
ExistingFirstOnly(uuid) ==
    [e \in {1} |-> [server |-> e, uuid |-> uuid, success |-> TRUE,
                    existing |-> TRUE]]

\* the results of the adopt branch: one entry per configured endpoint
ExistingResults(uuid) ==
    [e \in Servers |-> [server |-> e, uuid |-> uuid, success |-> TRUE,
                        existing |-> TRUE]]

\* mutant: every successful endpoint overwrites the identity
AssignLastUUID(cur, uuid) == uuid

\* `if (!bdoUserUUID) { bdoUserUUID = uuid; ... }`
AssignUserUUID(cur, uuid) == IF cur = NullUuid THEN uuid ELSE cur

\* `initResults.filter(r => r.success)`
successfulInits(results) == {i \in DOMAIN results : results[i].success}

Init ==
    /\ keysFile = NoKeys
    /\ keys = NoKeys
    /\ bdoUserUUID = NullUuid
    /\ vigilsData = EmptyStore
    /\ remote = [e \in Servers |-> NoBDO]
    /\ now = 0
    /\ pc = "start"
    /\ initResults = <<>>
    /\ pullIdx = 1
    /\ reqs = [s \in Slots |-> IdleReq]
    /\ response = NoResponse
    /\ startFile = NoKeys
    /\ createCalls = {}
    /\ updateCalls = {}
    /\ pullLog = <<>>
    /\ pullResult = "none"
    /\ admitted = NoQuery
    /\ restarts = 0
    /\ zipcodeCoordinatesCache = <<>>
    /\ searches = [q \in SearchSlots |-> IdleSearch]
    /\ events = <<>>
    /\ resolved = {}
    /\ submitted = [id \in VigilIds |-> {}]
    /\ localStorage = <<>>
    /\ pushes = NoPushes
    /\ stopped = NeverStopped

\* mutant: the pull is attempted whatever initializeBDO returned
AfterInitAlwaysPull(results) == "pull"

\* where the startup IIFE goes once initializeBDO has returned
AfterInit(results) ==
    IF successfulInits(results) = {} THEN "ready" ELSE "pull"

\* initializeBDO up to its first createUser: getKeys, then the adopt branch
StartBootstrap ==
    /\ pc = "start"
    /\ LET k == getKeys(keys, keysFile) IN
        /\ keys' = k
        /\ IF HasStoredUUID(k)
           THEN /\ bdoUserUUID' = k.uuid
                /\ initResults' = ExistingResults(k.uuid)
                /\ pc' = AfterInit(ExistingResults(k.uuid))
           ELSE /\ bdoUserUUID' = bdoUserUUID
                /\ initResults' = <<>>
                /\ pc' = "boot"
    /\ admitted' = NoQuery
    /\ UNCHANGED <<keysFile, vigilsData, remote, now, pullIdx, reqs, response,
                   startFile, createCalls, updateCalls, pullLog, pullResult,
                   restarts>>
    /\ events' = <<>>
    /\ UNCHANGED <<zipcodeCoordinatesCache, searches, resolved, submitted,
                   localStorage, pushes, stopped>>

\* one iteration of the createUser loop on endpoint e.  createUser is library
\* code: it hands a keypair to saveKeys when it generates one (it must when no
\* keys exist; whether it does when keys exist is the library's choice, gen,
\* drawn from regen), then asks the endpoint, which assigns a uuid u from uuids
\* (ok) or fails.
CreateUserOn(e, uuids, regen) ==
    /\ pc = "boot"
    /\ e = Len(initResults) + 1
    /\ \E gen \in (IF keys.exists THEN regen ELSE {TRUE}), kv \in KeyVals,
          ok \in BOOLEAN, u \in uuids :
        LET keys1 == IF gen THEN NewKeys(kv) ELSE keys
            file1 == IF gen THEN dataToSave(NewKeys(kv), NullUuid) ELSE keysFile
            first == ok /\ bdoUserUUID = NullUuid
            res == IF ok
                   THEN [server |-> e, uuid |-> u, success |-> TRUE,
                         existing |-> FALSE]
                   ELSE [server |-> e, uuid |-> NullUuid, success |-> FALSE,
                         existing |-> FALSE]
        IN  /\ keys' = keys1
            /\ bdoUserUUID' = IF ok THEN AssignUserUUID(bdoUserUUID, u)
                              ELSE bdoUserUUID
            /\ keysFile' = IF first THEN dataToSave(keys1, u) ELSE file1
            /\ remote' = IF ok
                         THEN [remote EXCEPT ![e] =
                                 [has |-> TRUE, uuid |-> u, bdo |-> vigilsData]]
                         ELSE remote
            /\ initResults' = Append(initResults, res)
            /\ pc' = IF e = NumServers THEN AfterInit(Append(initResults, res))
                     ELSE "boot"
    /\ createCalls' = createCalls \cup {e}
    /\ admitted' = NoQuery
    /\ UNCHANGED <<vigilsData, now, pullIdx, reqs, response, startFile,
                   updateCalls, pullLog, pullResult, restarts>>
    /\ events' = <<>>
    /\ UNCHANGED <<zipcodeCoordinatesCache, searches, resolved, submitted,
                   localStorage, pushes, stopped>>

\* ----------------------------------------------------------- loadVigilsFromBDO
\* mutant: whichever endpoint is asked, the last one's snapshot is returned
getBDOLast(e, uuid) ==
    IF remote[NumServers].has /\ remote[NumServers].uuid = uuid
    THEN [found |-> TRUE, bdo |-> remote[NumServers].bdo]
    ELSE [found |-> FALSE, bdo |-> EmptyStore]

\* what getBDO(uuid, hash) resolves to on endpoint e when it answers
getBDO(e, uuid) ==
    IF remote[e].has /\ remote[e].uuid = uuid
    THEN [found |-> TRUE, bdo |-> remote[e].bdo]
    ELSE [found |-> FALSE, bdo |-> EmptyStore]

\* mutant: a missing snapshot is not told from a present one
HasAnyAnswer(answered, result) == answered

\* mutant: a failed call is taken for a snapshot
HasSnapshotOrError(answered, result) == ~answered \/ result.found

\* `if (result && result.bdo)`
HasSnapshot(answered, result) == answered /\ result.found

\* one iteration of the pull loop; the guard on bdoUserUUID is its first visit
PullFrom(e) ==
    /\ pc = "pull"
    /\ e = pullIdx
    /\ IF bdoUserUUID = NullUuid
       THEN /\ pullResult' = "notfound"
            /\ pc' = "ready"
            /\ UNCHANGED <<vigilsData, pullIdx, pullLog>>
       ELSE \E answered \in BOOLEAN :
            LET result == getBDO(e, bdoUserUUID)
                got == HasSnapshot(answered, result)
                outcome == IF ~answered THEN "error"
                           ELSE IF result.found THEN "snapshot" ELSE "empty"
            IN  /\ pullLog' = Append(pullLog, <<e, bdoUserUUID, outcome>>)
                /\ vigilsData' = IF got THEN result.bdo ELSE vigilsData
                /\ pullResult' = IF got THEN "loaded"
                                 ELSE IF e = NumServers THEN "notfound"
                                 ELSE pullResult
                /\ pc' = IF got \/ e = NumServers THEN "ready" ELSE "pull"
                /\ pullIdx' = IF got \/ e = NumServers THEN pullIdx ELSE e + 1
    /\ admitted' = NoQuery
    /\ UNCHANGED <<keysFile, keys, bdoUserUUID, remote, now, initResults, reqs,
                   response, startFile, createCalls, updateCalls, restarts>>
    /\ events' = <<>>
    /\ UNCHANGED <<zipcodeCoordinatesCache, searches, resolved, submitted,
                   localStorage, pushes, stopped>>

\* app.listen: the IIFE ends, and with it its locals and the record of its calls
Listen ==
    /\ pc = "ready"
    /\ pc' = "listening"
    /\ initResults' = <<>>
    /\ pullIdx' = 1
    /\ createCalls' = {}
    /\ pullLog' = <<>>
    /\ pullResult' = "none"
    /\ admitted' = NoQuery
    /\ UNCHANGED <<keysFile, keys, bdoUserUUID, vigilsData, remote, now, reqs,
                   response, startFile, updateCalls, restarts>>
    /\ events' = <<>>
    /\ UNCHANGED <<zipcodeCoordinatesCache, searches, resolved, submitted,
                   localStorage, pushes, stopped>>

\* ------------------------------------------------------------- syncVigilsToBDO
\* mutant: the failures are not filtered out
AllSyncs(results) == results

\* `syncResults.filter(r => r.success)`
successfulSyncs(results) == SelectSeq(results, LAMBDA r : r.success)

\* `successfulSyncs.map(r => r.server)`
ServersOf(results) == [i \in DOMAIN results |-> results[i].server]

\* the response of a create or delete once syncVigilsToBDO has returned
SyncResponse(req, results) ==
    LET ok == successfulSyncs(results) IN
    IF Len(ok) = 0
    THEN [NoResponse EXCEPT !.kind = req.kind, !.status = 500,
                            !.uuid = req.uuid, !.accepted = req.accepted]
    ELSE [NoResponse EXCEPT !.kind = req.kind, !.status = 200,
                            !.uuid = req.uuid, !.accepted = req.accepted,
                            !.syncedTo = ServersOf(ok),
                            !.total = vigilsData.metadata.totalVigils,
                            !.vigil = req.vigil]

\* the snapshot a handler (or a get) reads
Vigils == vigilsData.vigils

\* the lowest free handler slot (handlers are interchangeable)
FreeSlot(s) == /\ reqs[s].kind = "idle"
               /\ \A t \in Slots : t < s => reqs[t].kind # "idle"

\* ------------------------------------------------------- POST /api/bdo/create
\* zipcodes a request may carry: four well-formed ones, one of four digits,
\* one with a letter
ZipHere == <<1, 0, 0, 0, 1>>
ZipTenMiles == <<1, 0, 0, 0, 2>>
ZipJustOver == <<1, 0, 0, 0, 3>>
ZipNear == <<1, 0, 0, 0, 4>>
ZipShort == <<1, 2, 3, 4>>
ZipLetter == <<1, 2, 3, 4, NonDigit>>

BodyZipcodes == <<ZipHere, ZipShort, NoZipcode, ZipLetter>>

\* the uuid and createdAt a request body may carry of its own
ClientUuid == <<-1, -1>>
ClientTime == -2

\* req.body.data of the d-th request body: the first is a plain well-formed
\* body with a null link, the others vary the zipcode; the even ones carry a
\* link and their own uuid and createdAt; the d-th body is dated day d
Body(d) ==
    LET fields == [data |-> d,
                   zipcode |-> BodyZipcodes[((d - 1) % Len(BodyZipcodes)) + 1],
                   submittedAt |-> d,
                   link |-> IF d % 2 = 0 THEN d ELSE 0,
                   date |-> d]
    IN  IF d % 2 = 0
        THEN [f \in DOMAIN fields \cup {"uuid", "createdAt"} |->
                 IF f = "uuid" THEN ClientUuid
                 ELSE IF f = "createdAt" THEN ClientTime ELSE fields[f]]
        ELSE fields

\* mutant: the body is spread last, so its own uuid and createdAt win
NewVigilBodyLast(id, d, t) ==
    [f \in DOMAIN d \cup {"uuid", "createdAt"} |->
        IF f \in DOMAIN d THEN d[f] ELSE IF f = "uuid" THEN id ELSE t]

\* mutant: the server stamps submittedAt as well
NewVigilStamped(id, d, t) ==
    [f \in DOMAIN d \cup {"uuid", "createdAt"} |->
        IF f = "uuid" THEN id
        ELSE IF f \in {"createdAt", "submittedAt"} THEN t ELSE d[f]]

\* `{ ...req.body.data, uuid: vigilUUID, createdAt: Date.now() }`: the fields
\* of the body, then uuid and createdAt, which replace the body's own
NewVigil(id, d, t) ==
    [f \in DOMAIN d \cup {"uuid", "createdAt"} |->
        IF f = "uuid" THEN id ELSE IF f = "createdAt" THEN t ELSE d[f]]

\* mutant: the count is not recomputed
StoreAfterCreateStale(store, id, rec, t) ==
    [vigils |-> Put(store.vigils, id, rec),
     metadata |-> [lastUpdated |-> t, totalVigils |-> store.metadata.totalVigils]]

\* mutant: the record is not stored before the push has succeeded
StoreAfterCreateDeferred(store, id, rec, t) == store

\* the store after the create handler's three assignments
StoreAfterCreate(store, id, rec, t) ==
    LET vs == Put(store.vigils, id, rec) IN
    [vigils |-> vs,
     metadata |-> [lastUpdated |-> t, totalVigils |-> NumKeys(vs)]]

CreateVigil(s, d, r) ==
    /\ pc = "listening"
    /\ FreeSlot(s)
    /\ NumKeys(Put(Vigils, <<now, r>>, NoVigil)) <= MaxVigils
    /\ LET id == <<now, r>>
           rec == NewVigil(id, d, now)
       IN  /\ vigilsData' = StoreAfterCreate(vigilsData, id, rec, now)
           /\ reqs' = [reqs EXCEPT ![s] = [IdleReq EXCEPT !.kind = "create",
                                                          !.uuid = id,
                                                          !.vigil = rec]]
           /\ submitted' = [submitted EXCEPT ![id] = @ \cup {d}]
    /\ UNCHANGED <<localStorage, pushes, stopped>>
    /\ response' = NoResponse
    /\ admitted' = NoQuery
    /\ UNCHANGED <<keysFile, keys, bdoUserUUID, remote, now, pc, initResults,
                   pullIdx, startFile, createCalls, updateCalls, pullLog,
                   pullResult, restarts>>
    /\ events' = <<>>
    /\ UNCHANGED <<zipcodeCoordinatesCache, searches, resolved, localStorage,
                   pushes, stopped>>

\* ------------------------------------------------- DELETE /admin/delete/:uuid
\* `timeDiff > twoMinutes`: false for NaN
Expired(timeDiff) == timeDiff # NaN /\ timeDiff > TwoMinutes

\* mutant: a missing record is not told from a present one
DeleteRejectionNoLookup(store, uuid, hasParams, timeDiff, sigValid) ==
    IF ~hasParams THEN 400
    ELSE IF Expired(timeDiff) THEN 401
    ELSE IF ~sigValid THEN 403
    ELSE 0

\* mutant: the signature is not checked
DeleteRejectionNoSig(store, uuid, hasParams, timeDiff, sigValid) ==
    IF ~hasParams THEN 400
    ELSE IF Expired(timeDiff) THEN 401
    ELSE IF uuid \notin DOMAIN store.vigils THEN 404
    ELSE 0

\* the status the handler answers with before it touches the store, 0 if none
DeleteRejection(store, uuid, hasParams, timeDiff, sigValid) ==
    IF ~hasParams THEN 400
    ELSE IF Expired(timeDiff) THEN 401
    ELSE IF ~sigValid THEN 403
    ELSE IF uuid \notin DOMAIN store.vigils THEN 404
    ELSE 0

\* the store after the delete handler's three assignments
StoreAfterDelete(store, uuid, t) ==
    LET vs == Remove(store.vigils, uuid) IN
    [vigils |-> vs,
     metadata |-> [lastUpdated |-> t, totalVigils |-> NumKeys(vs)]]

TimeDiffs == {0, TwoMinutes, TwoMinutes + 1, TwoMinutes + 1000, NaN}

\* the handler gets as far as `await sessionless.verifySignature(...)`
ReachesSignature(hasParams, timeDiff) == hasParams /\ ~Expired(timeDiff)

DeleteVigil(s, uuid, hasParams, timeDiff, sigValid) ==
    /\ pc = "listening"
    /\ FreeSlot(s)
    /\ LET rej == DeleteRejection(vigilsData, uuid, hasParams, timeDiff, sigValid)
       IN  IF rej # 0
           THEN /\ response' = [NoResponse EXCEPT
                                  !.kind = "delete", !.status = rej,
                                  !.query = [uuid |-> uuid,
                                             hasParams |-> hasParams,
                                             timeDiff |-> timeDiff,
                                             sigValid |-> sigValid],
                                  !.verified =
                                      ReachesSignature(hasParams, timeDiff)]
                /\ admitted' = NoQuery
                /\ UNCHANGED <<vigilsData, reqs, submitted>>
           ELSE /\ vigilsData' = StoreAfterDelete(vigilsData, uuid, now)
                /\ reqs' = [reqs EXCEPT ![s] = [IdleReq EXCEPT !.kind = "delete",
                                                               !.uuid = uuid]]
                /\ admitted' = [uuid |-> uuid, hasParams |-> hasParams,
                                timeDiff |-> timeDiff, sigValid |-> sigValid]
                /\ response' = NoResponse
                /\ submitted' = [submitted EXCEPT ![uuid] = {}]
    /\ UNCHANGED <<keysFile, keys, bdoUserUUID, remote, now, pc, initResults,
                   pullIdx, startFile, createCalls, updateCalls, pullLog,
                   pullResult, restarts>>
    /\ events' = <<>>
    /\ UNCHANGED <<zipcodeCoordinatesCache, searches, resolved, localStorage,
                   pushes, stopped>>

\* ------------------------------------------------------------------ GET /admin
\* the status the page handler answers with before it renders, 0 if none
AdminRejection(hasParams, timeDiff, sigValid) ==
    IF ~hasParams THEN 400
    ELSE IF Expired(timeDiff) THEN 401
    ELSE IF ~sigValid THEN 403
    ELSE 0

\* the moderation page: the checks, then the list of all records
AdminPage(hasParams, timeDiff, sigValid) ==
    /\ pc = "listening"
    /\ LET rej == AdminRejection(hasParams, timeDiff, sigValid)
           q == [uuid |-> <<0, 0>>, hasParams |-> hasParams,
                 timeDiff |-> timeDiff, sigValid |-> sigValid]
       IN  response' = [NoResponse EXCEPT
                           !.kind = "admin",
                           !.status = IF rej # 0 THEN rej ELSE 200,
                           !.total = IF rej # 0 THEN 0 ELSE NumKeys(Vigils),
                           !.query = q,
                           !.verified = ReachesSignature(hasParams, timeDiff)]
    /\ admitted' = NoQuery
    /\ events' = <<>>
    /\ UNCHANGED <<keysFile, keys, bdoUserUUID, vigilsData, remote, now, pc,
                   initResults, pullIdx, reqs, startFile, createCalls,
                   updateCalls, pullLog, pullResult, restarts,
                   zipcodeCoordinatesCache, searches, resolved, submitted,
                   localStorage, pushes, stopped>>

\* mutant: the loop stops at the first endpoint that fails
LoopEndsAtFailure(results) ==
    Len(results) = NumServers \/ ~results[Len(results)].success

\* mutant: the loop stops at the first endpoint that accepts
LoopEndsAtSuccess(results) ==
    Len(results) = NumServers \/ results[Len(results)].success

\* `for (let i = 0; i < bdoClients.length; i++)`: the loop ends when every
\* client has a result
LoopEnds(results) == Len(results) = NumServers

\* one iteration of the push loop of the handler in slot s: updateBDO on the
\* next endpoint resolves (ok) or throws; after the last endpoint the handler
\* answers.  The call and its return are one step: nothing else runs while
\* the call is under way.
SyncStep(s) ==
    /\ reqs[s].kind \in {"create", "delete"}
    /\ ~reqs[s].calling
    /\ \E ok \in BOOLEAN :
        LET req == reqs[s]
            e == Len(req.results) + 1
            results == Append(req.results, [server |-> e, success |-> ok])
            req1 == [req EXCEPT !.results = results,
                                !.accepted = IF ok THEN @ \cup {e} ELSE @]
        IN  /\ updateCalls' = updateCalls \cup {bdoUserUUID}
            /\ remote' = IF ok
                         THEN [remote EXCEPT ![e] = [has |-> TRUE,
                                                    uuid |-> bdoUserUUID,
                                                    bdo |-> vigilsData]]
                         ELSE remote
            /\ IF LoopEnds(results)
               THEN /\ reqs' = [reqs EXCEPT ![s] = IdleReq]
                    /\ response' = SyncResponse(req1, results)
               ELSE /\ reqs' = [reqs EXCEPT ![s] = req1]
                    /\ response' = NoResponse
    /\ admitted' = NoQuery
    /\ UNCHANGED <<keysFile, keys, bdoUserUUID, vigilsData, now, pc, initResults,
                   pullIdx, startFile, createCalls, pullLog, pullResult,
                   restarts>>
    /\ events' = <<>>
    /\ UNCHANGED <<zipcodeCoordinatesCache, searches, resolved, submitted,
                   localStorage, pushes, stopped>>

\* The same iteration in two steps, between which other handlers run.
\* SyncCall: the handler calls updateBDO on the next endpoint with the store
\* as it is and awaits the result.
SyncCall(s) ==
    /\ reqs[s].kind \in {"create", "delete"}
    /\ ~reqs[s].calling
    /\ LET e == Len(reqs[s].results) + 1 IN
        reqs' = [reqs EXCEPT ![s] =
                    [@ EXCEPT !.calling = TRUE,
                              !.sent = vigilsData,
                              !.behind = {t \in Slots \ {s} :
                                             /\ reqs[t].calling
                                             /\ Len(reqs[t].results) + 1 = e}]]
    /\ updateCalls' = updateCalls \cup {bdoUserUUID}
    /\ response' = NoResponse
    /\ admitted' = NoQuery
    /\ events' = <<>>
    /\ UNCHANGED <<keysFile, keys, bdoUserUUID, vigilsData, remote, now, pc,
                   initResults, pullIdx, startFile, createCalls, pullLog,
                   pullResult, restarts, zipcodeCoordinatesCache, searches,
                   resolved, submitted, localStorage, pushes, stopped>>

\* SyncReturn: the request of the handler in slot s reaches its endpoint,
\* which stores the snapshot it carries (ok) or rejects it, and the handler
\* goes on: with the next endpoint, or with its answer after the last.
\* Requests to one endpoint may arrive in another order than they were made.
SyncReturn(s, ok) ==
    /\ reqs[s].calling
    /\ LET req == reqs[s]
           e == Len(req.results) + 1
           results == Append(req.results, [server |-> e, success |-> ok])
           req1 == [req EXCEPT !.results = results,
                               !.accepted = IF ok THEN @ \cup {e} ELSE @,
                               !.calling = FALSE, !.sent = EmptyStore,
                               !.behind = {}, !.late = FALSE]
           others == [t \in Slots |->
                        [reqs[t] EXCEPT !.behind = @ \ {s},
                                        !.late = @ \/ (ok /\ t \in req.behind)]]
       IN  /\ remote' = IF ok
                        THEN [remote EXCEPT ![e] = [has |-> TRUE,
                                                   uuid |-> bdoUserUUID,
                                                   bdo |-> req.sent]]
                        ELSE remote
           /\ pushes' = [rejected |-> pushes.rejected \/ ~ok,
                         lastAll |-> IF LoopEnds(results)
                                     THEN Len(successfulSyncs(results)) = NumServers
                                     ELSE pushes.lastAll,
                         stale |-> IF ~ok THEN pushes.stale
                                   ELSE IF req.late THEN pushes.stale \cup {e}
                                   ELSE pushes.stale \ {e}]
           /\ IF LoopEnds(results)
              THEN /\ reqs' = [others EXCEPT ![s] = IdleReq]
                   /\ response' = SyncResponse(req1, results)
              ELSE /\ reqs' = [others EXCEPT ![s] = req1]
                   /\ response' = NoResponse
    /\ admitted' = NoQuery
    /\ events' = <<>>
    /\ UNCHANGED <<keysFile, keys, bdoUserUUID, vigilsData, now, pc, initResults,
                   pullIdx, startFile, createCalls, updateCalls, pullLog,
                   pullResult, restarts, zipcodeCoordinatesCache, searches,
                   resolved, submitted, localStorage, stopped>>

\* ---------------------------------------------------------- GET /api/bdo/:uuid
GetVigil(uuid) ==
    /\ pc = "listening"
    /\ response' = IF uuid \notin DOMAIN Vigils
                       THEN [NoResponse EXCEPT !.kind = "get", !.status = 404,
                                               !.uuid = uuid]
                       ELSE [NoResponse EXCEPT !.kind = "get", !.status = 200,
                                               !.uuid = uuid,
                                               !.vigil = Vigils[uuid]]
    /\ admitted' = NoQuery
    /\ UNCHANGED <<keysFile, keys, bdoUserUUID, vigilsData, remote, now, pc,
                   initResults, pullIdx, reqs, startFile, createCalls,
                   updateCalls, pullLog, pullResult, restarts>>
    /\ events' = <<>>
    /\ UNCHANGED <<zipcodeCoordinatesCache, searches, resolved, submitted,
                   localStorage, pushes, stopped>>

\* ------------------------------------------------------- GET /api/vigils-count
\* The clock is read as a calendar date twice over: utc, the date of
\* `new Date().toISOString()`, and local, the date in the server's time zone,
\* which is the day before, the same day or the day after.
ClockReadings ==
    {[utc |-> u, local |-> u + off] : u \in 1..MaxData, off \in {-1, 0, 1}}

\* the one reading of a server whose zone is UTC, on day 1
UtcReading == [utc |-> 1, local |-> 1]

\* `allVigils.filter(vigil => vigil.date === todayStr).length`
CountDated(vigils, todayStr) ==
    Cardinality({id \in DOMAIN vigils : vigils[id].date = todayStr})

\* the handler, when the clock reads c; the response keeps, as history,
\* todayStr and the local date of that reading
CountVigils(c) ==
    /\ pc = "listening"
    /\ LET todayStr == c.utc
       IN  response' = [NoResponse EXCEPT !.kind = "count", !.status = 200,
                                          !.total = NumKeys(Vigils),
                                          !.today = CountDated(Vigils, todayStr),
                                          !.todayStr = todayStr,
                                          !.localDate = c.local]
    /\ admitted' = NoQuery
    /\ UNCHANGED <<keysFile, keys, bdoUserUUID, vigilsData, remote, now, pc,
                   initResults, pullIdx, reqs, startFile, createCalls,
                   updateCalls, pullLog, pullResult, restarts>>
    /\ events' = <<>>
    /\ UNCHANGED <<zipcodeCoordinatesCache, searches, resolved, submitted,
                   localStorage, pushes, stopped>>

\* ------------------------------------------------------------------ environment
\* the process stops and is started again at some later time: module state is
\* initialised anew, the key file and the endpoints keep what they hold
NewProcess ==
    /\ restarts < MaxRestarts
    /\ \E t \in now..MaxTime : now' = t
    /\ restarts' = restarts + 1
    /\ keys' = NoKeys
    /\ bdoUserUUID' = NullUuid
    /\ vigilsData' = EmptyStore
    /\ pc' = "start"
    /\ initResults' = <<>>
    /\ pullIdx' = 1
    /\ reqs' = [s \in Slots |-> IdleReq]
    /\ response' = NoResponse
    /\ startFile' = keysFile
    /\ createCalls' = {}
    /\ updateCalls' = {}
    /\ pullLog' = <<>>
    /\ pullResult' = "none"
    /\ admitted' = NoQuery
    /\ zipcodeCoordinatesCache' = <<>>
    /\ searches' = [q \in SearchSlots |-> IdleSearch]
    /\ events' = <<>>
    /\ resolved' = {}
    /\ submitted' = [id \in VigilIds |-> {}]
    /\ UNCHANGED <<keysFile, remote, localStorage>>

Restart == NewProcess /\ UNCHANGED <<pushes, stopped>>

\* the same, keeping as history what the process was when it stopped
RestartFrom ==
    /\ NewProcess
    /\ pushes' = NoPushes
    /\ stopped' = [lastAll |-> pushes.lastAll,
                   store |-> vigilsData,
                   idle |-> \A s \in Slots : reqs[s] = IdleReq]

\* ------------------------------------------------------- getZipcodeCoordinates
\* The geocoding service.  A coordinate of the model is a place on one
\* meridian: lat is its position in hundredths of a mile along it, lon is 0.
\* The service knows four zipcodes: one at 0 and three that are 9.96 miles,
\* exactly 10 miles and 10.04 miles from it.
Places == [z \in {ZipHere, ZipNear, ZipTenMiles, ZipJustOver} |->
              IF z = ZipHere THEN 0
              ELSE IF z = ZipNear THEN 996
              ELSE IF z = ZipTenMiles THEN 1000 ELSE 1004]

\* how a fetch of zipcode z may end: "error", fetch throws; "notok", a response
\* that is not ok; and for a zipcode the service knows, "ok", a payload with
\* the place; "noplaces", a payload without places; "nolatitude", a payload
\* whose place has no latitude and longitude
Outcomes(z) ==
    IF z \in DOMAIN Places
    THEN {"ok", "error", "notok", "noplaces", "nolatitude"}
    ELSE {"error", "notok"}

\* the fetch gets as far as `const coords = { lat: parseFloat(...), ... }`:
\* it did not throw, the response is ok, and data.places[0] is an object
MakesCoords(outcome) == outcome \in {"ok", "nolatitude"}

\* `{ lat: parseFloat(place.latitude), lon: parseFloat(place.longitude) }`
CoordsOf(z, outcome) ==
    IF outcome = "ok" THEN [lat |-> Places[z], lon |-> 0, null |-> FALSE]
    ELSE [lat |-> NaN, lon |-> NaN, null |-> FALSE]

\* what getZipcodeCoordinates returns once its fetch has ended
Returned(z, outcome) ==
    IF MakesCoords(outcome) THEN CoordsOf(z, outcome) ELSE NoCoords

\* mutant: an entry is written only if there is none
CacheAfterIfAbsent(cache, z, outcome) ==
    IF MakesCoords(outcome) /\ z \notin DOMAIN cache
    THEN Put(cache, z, CoordsOf(z, outcome)) ELSE cache

\* the cache once the fetch has ended: `zipcodeCoordinatesCache.set(zipcode, coords)`
CacheAfter(cache, z, outcome) ==
    IF MakesCoords(outcome) THEN Put(cache, z, CoordsOf(z, outcome)) ELSE cache

\* mutant: the cache is not looked at
NeverInCache(cache, z) == FALSE

\* `zipcodeCoordinatesCache.has(zipcode)`
InCache(cache, z) == z \in DOMAIN cache

\* an entry of events: a cache hit and what it returned, a fetch issued, or a
\* fetch ended with its outcome and what getZipcodeCoordinates returned
Event(type, z, outcome, coords) ==
    [type |-> type, zipcode |-> z, outcome |-> outcome, coords |-> coords]

\* ---------------------------------------------------------- calculateDistance
\* The Haversine distance in hundredths of a mile.  For two places on one
\* meridian dLon is 0, a is sin^2(dLat / 2), c is |dLat| and R * c is the
\* length of the arc between them; NaN if a coordinate is NaN.
calculateDistance(lat1, lon1, lat2, lon2) ==
    IF NaN \in {lat1, lon1, lat2, lon2} THEN NaN
    ELSE CASE lon1 = lon2 -> IF lat2 >= lat1 THEN lat2 - lat1 ELSE lat1 - lat2

\* RADIUS_MILES, in hundredths of a mile
RadiusMiles == 1000

\* distance.toFixed(1), in tenths of a mile
ToFixed1(distance) == (distance + 5) \div 10

\* mutant: the rounded distance decides
WithinRadiusRounded(distance) ==
    distance # NaN /\ ToFixed1(distance) * 10 <= RadiusMiles

\* `distance <= RADIUS_MILES`: false for NaN
WithinRadius(distance) == distance # NaN /\ distance <= RadiusMiles

\* ------------------------------------------------------ GET /api/vigils/:zipcode
\* the order of the keys `vigil-${Date.now()}-...` as they were inserted
IdBefore(a, b) == a[1] < b[1] \/ (a[1] = b[1] /\ a[2] < b[2])

\* Object.values(obj), in the order of the keys
RECURSIVE ObjectValues(_)
ObjectValues(obj) ==
    IF DOMAIN obj = {} THEN <<>>
    ELSE LET k == CHOOSE x \in DOMAIN obj :
                      \A y \in DOMAIN obj \ {x} : IdBefore(x, y)
         IN  <<obj[k]>> \o ObjectValues(Remove(obj, k))

\* mutant: a record without coordinate is listed with distance 0
PushIfWithinSentinel(acc, sc, vigil, vc) ==
    IF vc.null THEN Append(acc, [vigil |-> vigil, distance |-> 0])
    ELSE LET distance == calculateDistance(sc.lat, sc.lon, vc.lat, vc.lon)
         IN  IF WithinRadius(distance)
             THEN Append(acc, [vigil |-> vigil, distance |-> ToFixed1(distance)])
             ELSE acc

\* the body of the loop once the record's coordinate is there:
\* `if (vigilCoords) { ... if (distance <= RADIUS_MILES) push }`
PushIfWithin(acc, sc, vigil, vc) ==
    IF vc.null THEN acc
    ELSE LET distance == calculateDistance(sc.lat, sc.lon, vc.lat, vc.lon)
         IN  IF WithinRadius(distance)
             THEN Append(acc, [vigil |-> vigil, distance |-> ToFixed1(distance)])
             ELSE acc

\* the loop over allVigils for as long as getZipcodeCoordinates finds the
\* record's zipcode in the cache; st is the position of the loop and the
\* events so far
RECURSIVE RunLoop(_, _, _)
RunLoop(cache, sc, st) ==
    IF st.allVigils = <<>> THEN st
    ELSE LET vigil == Head(st.allVigils)
             z == vigil.zipcode
         IN  IF ~InCache(cache, z) THEN st
             ELSE RunLoop(cache, sc,
                    [allVigils |-> Tail(st.allVigils),
                     vigilsWithDistance |->
                         PushIfWithin(st.vigilsWithDistance, sc, vigil, cache[z]),
                     seen |-> Append(st.seen, [vigil |-> vigil, coords |-> cache[z]]),
                     events |-> Append(st.events, Event("hit", z, "none", cache[z]))])

\* mutant: the list is not sorted
NotSorted(seq) == seq

\* `vigilsWithDistance.sort((a, b) => a.distance - b.distance)`: stable
RECURSIVE SortByDistance(_)
SortByDistance(seq) ==
    IF seq = <<>> THEN <<>>
    ELSE LET last == seq[Len(seq)]
             front == SortByDistance(SubSeq(seq, 1, Len(seq) - 1))
             keep == SelectSeq(front, LAMBDA e : e.distance <= last.distance)
             move == SelectSeq(front, LAMBDA e : e.distance > last.distance)
         IN  keep \o <<last>> \o move

\* the calls of getZipcodeCoordinates that the events report as returned
ResolvedBy(evs) ==
    {<<evs[i].zipcode, ~evs[i].coords.null>> :
        i \in {j \in DOMAIN evs : evs[j].type \in {"hit", "return"}}}

\* the lowest free search handler slot
FreeSearch(q) == /\ searches[q].phase = "idle"
                 /\ \A t \in SearchSlots : t < q => searches[t].phase # "idle"

\* the handler of slot q from the loop position st up to its next fetch or
\* its response
Continue(q, cache, sc, zipcode, st) ==
    LET r == RunLoop(cache, sc, st) IN
    /\ resolved' = resolved \cup ResolvedBy(r.events)
    /\ IF r.allVigils = <<>>
       THEN /\ searches' = [searches EXCEPT ![q] = IdleSearch]
            /\ events' = r.events
            /\ response' = [NoResponse EXCEPT
                              !.kind = "search", !.status = 200,
                              !.vigils = SortByDistance(r.vigilsWithDistance),
                              !.total = Len(r.vigilsWithDistance),
                              !.searchCoords = sc, !.seen = r.seen]
       ELSE /\ searches' = [searches EXCEPT ![q] =
                              [phase |-> "vigil", zipcode |-> zipcode,
                               searchCoords |-> sc, allVigils |-> r.allVigils,
                               vigilsWithDistance |-> r.vigilsWithDistance,
                               seen |-> r.seen]]
            /\ events' = Append(r.events,
                                Event("fetch", Head(r.allVigils).zipcode, "none",
                                      NoCoords))
            /\ response' = NoResponse

\* mutant: the loop starts with no records
LoopStartEmpty(evs) == [allVigils |-> <<>>, vigilsWithDistance |-> <<>>,
                        seen |-> <<>>, events |-> evs]

\* the loop position at `const allVigils = Object.values(vigilsData.vigils)`
LoopStart(evs) == [allVigils |-> ObjectValues(Vigils), vigilsWithDistance |-> <<>>,
                   seen |-> <<>>, events |-> evs]

\* the search handler up to its first fetch (or its response, if every zipcode
\* it needs is in the cache)
SearchVigils(q, zipcode) ==
    /\ pc = "listening"
    /\ FreeSearch(q)
    /\ IF InCache(zipcodeCoordinatesCache, zipcode)
       THEN LET sc == zipcodeCoordinatesCache[zipcode] IN
            Continue(q, zipcodeCoordinatesCache, sc, zipcode,
                     LoopStart(<<Event("hit", zipcode, "none", sc)>>))
       ELSE /\ searches' = [searches EXCEPT ![q] =
                              [IdleSearch EXCEPT !.phase = "search",
                                                 !.zipcode = zipcode]]
            /\ events' = <<Event("fetch", zipcode, "none", NoCoords)>>
            /\ response' = NoResponse
            /\ resolved' = resolved
    /\ admitted' = NoQuery
    /\ UNCHANGED <<keysFile, keys, bdoUserUUID, vigilsData, remote, now, pc,
                   initResults, pullIdx, reqs, startFile, createCalls,
                   updateCalls, pullLog, pullResult, restarts,
                   zipcodeCoordinatesCache, submitted,
                   localStorage, pushes, stopped>>

\* the zipcode whose fetch the handler awaits
Pending(h) == IF h.phase = "search" THEN h.zipcode ELSE Head(h.allVigils).zipcode

\* the fetch the handler of slot q awaits ends: getZipcodeCoordinates caches
\* and returns, and the handler goes on to its next fetch or its response
LookupReturns(q, outcome) ==
    /\ searches[q].phase \in {"search", "vigil"}
    /\ LET h == searches[q]
           z == Pending(h)
           cache == CacheAfter(zipcodeCoordinatesCache, z, outcome)
           ret == Returned(z, outcome)
           ev == Event("return", z, outcome, ret)
       IN  /\ outcome \in Outcomes(z)
           /\ zipcodeCoordinatesCache' = cache
           /\ IF h.phase = "search"
              THEN IF ret.null
                   THEN /\ searches' = [searches EXCEPT ![q] = IdleSearch]
                        /\ events' = <<ev>>
                        /\ resolved' = resolved \cup {<<z, FALSE>>}
                        /\ response' = [NoResponse EXCEPT !.kind = "search",
                                                          !.status = 400]
                   ELSE Continue(q, cache, ret, h.zipcode, LoopStart(<<ev>>))
              ELSE LET vigil == Head(h.allVigils) IN
                   Continue(q, cache, h.searchCoords, h.zipcode,
                     [allVigils |-> Tail(h.allVigils),
                      vigilsWithDistance |->
                          PushIfWithin(h.vigilsWithDistance, h.searchCoords,
                                       vigil, ret),
                      seen |-> Append(h.seen, [vigil |-> vigil, coords |-> ret]),
                      events |-> <<ev>>])
    /\ admitted' = NoQuery
    /\ UNCHANGED <<keysFile, keys, bdoUserUUID, vigilsData, remote, now, pc,
                   initResults, pullIdx, reqs, startFile, createCalls,
                   updateCalls, pullLog, pullResult, restarts, submitted,
                   localStorage, pushes, stopped>>

\* a millisecond passes: Date.now() returns the next value
Tick ==
    /\ now < MaxTime
    /\ now' = now + 1
    /\ response' = NoResponse
    /\ admitted' = NoQuery
    /\ events' = <<>>
    /\ UNCHANGED <<keysFile, keys, bdoUserUUID, vigilsData, remote, pc,
                   initResults, pullIdx, reqs, startFile, createCalls,
                   updateCalls, pullLog, pullResult, restarts,
                   zipcodeCoordinatesCache, searches, resolved, submitted,
                   localStorage, pushes, stopped>>

\* The specifications share the actions above and differ in what the
\* environment offers.  Unless a specification has Tick, the clock stands still
\* while a process runs and may have advanced when it is started again.

\* The store and its replication over restarts: overlapping creates of one body
\* and authenticated deletes, every push and pull outcome; the endpoints all
\* assign uuid 1 and createUser generates keys only when there are none.
Next ==
    \/ StartBootstrap
    \/ \E e \in Servers : CreateUserOn(e, {1}, {FALSE})
    \/ \E e \in Servers : PullFrom(e)
    \/ Listen
    \/ \E s \in Slots, r \in Rands : CreateVigil(s, Body(1), r)
    \/ \E s \in Slots, uuid \in VigilIds : DeleteVigil(s, uuid, TRUE, 0, TRUE)
    \/ \E s \in Slots : SyncStep(s)
    \/ Restart

Spec == Init /\ [][Next]_vars

\* The startup and identity part: the endpoints assign any uuid, createUser may
\* generate keys on every call, requests are creates of one body.
NextBoot ==
    \/ StartBootstrap
    \/ \E e \in Servers : CreateUserOn(e, UuidVals, BOOLEAN)
    \/ \E e \in Servers : PullFrom(e)
    \/ Listen
    \/ \E s \in Slots : CreateVigil(s, Body(1), 0)
    \/ \E s \in Slots : SyncStep(s)
    \/ Restart

SpecBoot == Init /\ [][NextBoot]_vars

\* The requests of a process that has started with every endpoint initialised
\* and an empty store pulled: overlapping handlers, every request kind and input.
InitServing ==
    /\ keysFile = [exists |-> TRUE, key |-> 1, uuid |-> 1]
    /\ keys = [exists |-> TRUE, key |-> 1, uuid |-> NullUuid]
    /\ bdoUserUUID = 1
    /\ vigilsData = EmptyStore
    /\ remote = [e \in Servers |-> [has |-> TRUE, uuid |-> 1, bdo |-> EmptyStore]]
    /\ now = 0
    /\ pc = "listening"
    /\ initResults = <<>>
    /\ pullIdx = 1
    /\ reqs = [s \in Slots |-> IdleReq]
    /\ response = NoResponse
    /\ startFile = NoKeys
    /\ createCalls = {}
    /\ updateCalls = {}
    /\ pullLog = <<>>
    /\ pullResult = "none"
    /\ admitted = NoQuery
    /\ restarts = 0
    /\ zipcodeCoordinatesCache = <<>>
    /\ searches = [q \in SearchSlots |-> IdleSearch]
    /\ events = <<>>
    /\ resolved = {}
    /\ submitted = [id \in VigilIds |-> {}]
    /\ localStorage = <<>>
    /\ pushes = NoPushes
    /\ stopped = NeverStopped

\* one query <<hasParams, timeDiff, sigValid>> for each way through the checks
\* of the delete handler
DeleteQueries == {<<FALSE, 0, FALSE>>, <<TRUE, TwoMinutes + 1, TRUE>>,
                  <<TRUE, 0, FALSE>>, <<TRUE, 0, TRUE>>}

NextRequests ==
    \/ \E s \in Slots, d \in DataVals, r \in Rands : CreateVigil(s, Body(d), r)
    \/ \E s \in Slots, uuid \in VigilIds, q \in DeleteQueries :
          DeleteVigil(s, uuid, q[1], q[2], q[3])
    \/ \E s \in Slots : SyncStep(s)
    \/ \E uuid \in VigilIds : GetVigil(uuid)
    \/ CountVigils(UtcReading)

SpecRequests == InitServing /\ [][NextRequests]_vars

\* Creating, deleting and fetching in such a process while time passes, one
\* create or delete handler at a time: every request body.
NextCreate ==
    \/ Tick
    \/ \E d \in DataVals, r \in Rands : CreateVigil(1, Body(d), r)
    \/ \E uuid \in VigilIds : DeleteVigil(1, uuid, TRUE, 0, TRUE)
    \/ SyncStep(1)
    \/ \E uuid \in VigilIds : GetVigil(uuid)

SpecCreate == InitServing /\ [][NextCreate]_vars

\* Counting while records of two dates are created and deleted, on servers
\* in any time zone.
NextCount ==
    \/ \E d \in DataVals : CreateVigil(1, Body(d), 0)
    \/ \E uuid \in VigilIds : DeleteVigil(1, uuid, TRUE, 0, TRUE)
    \/ SyncStep(1)
    \/ \E c \in ClockReadings : CountVigils(c)

SpecCount == InitServing /\ [][NextCount]_vars

\* Overlapping creates of one body and deletes whose updateBDO calls are
\* under way at the same time.
NextRace ==
    \/ \E s \in Slots : CreateVigil(s, Body(1), 0)
    \/ \E s \in Slots, uuid \in VigilIds : DeleteVigil(s, uuid, TRUE, 0, TRUE)
    \/ \E s \in Slots : SyncCall(s)
    \/ \E s \in Slots, ok \in BOOLEAN : SyncReturn(s, ok)

SpecRace == InitServing /\ [][NextRace]_vars

\* A process with a stored identity that creates and deletes, one request at
\* a time, stops at any moment and is started again: every push and pull
\* outcome.
NextRestart ==
    \/ CreateVigil(1, Body(1), 0)
    \/ \E uuid \in VigilIds : DeleteVigil(1, uuid, TRUE, 0, TRUE)
    \/ SyncCall(1)
    \/ \E ok \in BOOLEAN : SyncReturn(1, ok)
    \/ RestartFrom
    \/ StartBootstrap
    \/ \E e \in Servers : PullFrom(e)
    \/ Listen

SpecRestart == InitServing /\ [][NextRestart]_vars

\* ------------------------------------------------- bdo-client.js (browser)
\* A string is a sequence of characters.  `.replace(/\s+/g, '_')`: every run
\* of whitespace becomes one underscore.
RECURSIVE ReplaceSpaces(_)
ReplaceSpaces(str) ==
    IF str = <<>> THEN <<>>
    ELSE IF Head(str) # " " THEN <<Head(str)>> \o ReplaceSpaces(Tail(str))
    ELSE IF Len(str) > 1 /\ str[2] = " " THEN ReplaceSpaces(Tail(str))
    ELSE <<"_">> \o ReplaceSpaces(Tail(str))

\* `.toLowerCase()` over the letters of the model
ToLowerCase(str) ==
    [i \in DOMAIN str |-> CASE str[i] = "A" -> "a"
                            [] str[i] = "B" -> "b"
                            [] str[i] = "C" -> "c"
                            [] OTHER -> str[i]]

\* `${repName}_${repState}_${repDistrict}`.replace(/\s+/g, '_').toLowerCase()
getRepKey(repName, repState, repDistrict) ==
    ToLowerCase(ReplaceSpaces(repName \o <<"_">> \o repState \o <<"_">>
                                \o repDistrict))

\* JSON.stringify of an array of strings is its text, JSON.parse of that text
\* is an array of the same strings
JSONstringify(arr) == [json |-> arr, null |-> FALSE]
JSONparse(text) == text.json

\* localStorage.getItem(key): null for a key that was never set
Null == [json |-> <<>>, null |-> TRUE]
getItem(key) == IF key \in DOMAIN localStorage THEN localStorage[key] ELSE Null

\* mutant: the list is never found to include the identifier
NeverIncludes(arr, uuid) == FALSE

\* arr.includes(uuid)
Includes(arr, uuid) == \E i \in DOMAIN arr : arr[i] = uuid

\* the body the two functions share: read the list under key, append uuid if
\* it is not there, and write the list back only then
StoreLocally(key, uuid) ==
    LET stored == getItem(key)
        uuids == IF stored # Null THEN JSONparse(stored) ELSE <<>>
    IN  /\ localStorage' = IF ~Includes(uuids, uuid)
                           THEN Put(localStorage, key,
                                    JSONstringify(Append(uuids, uuid)))
                           ELSE localStorage
        /\ response' = NoResponse
        /\ admitted' = NoQuery
        /\ events' = <<>>
        /\ UNCHANGED <<keysFile, keys, bdoUserUUID, vigilsData, remote, now, pc,
                       initResults, pullIdx, reqs, startFile, createCalls,
                       updateCalls, pullLog, pullResult, restarts,
                       zipcodeCoordinatesCache, searches, resolved, submitted,
                       pushes, stopped>>

storeAnswerLocally(repName, repState, repDistrict, uuid) ==
    StoreLocally(<<"answers_">> \o getRepKey(repName, repState, repDistrict),
                 uuid)

\* `orgs_${zipcode}`: the digits of the zipcode as characters
ZipString(zipcode) ==
    [i \in DOMAIN zipcode |->
        <<"0", "1", "2", "3", "4", "5", "6", "7", "8", "9">>[zipcode[i] + 1]]

storeOrganizationLocally(zipcode, uuid) ==
    StoreLocally(<<"orgs_">> \o ZipString(zipcode), uuid)

\* the identifiers, names and zipcodes the page passes
ClientUuids == 1..MaxIds
RepNames == {<<"A", " ", " ", "B">>, <<"a", "_", "b">>, <<"C">>}
RepStates == {<<"C", "A">>}
RepDistricts == {<<"1">>}
OrgZipcodes == {ZipHere, ZipNear}

NextClient ==
    \/ \E n \in RepNames, st \in RepStates, d \in RepDistricts,
          uuid \in ClientUuids : storeAnswerLocally(n, st, d, uuid)
    \/ \E z \in OrgZipcodes, uuid \in ClientUuids :
          storeOrganizationLocally(z, uuid)

SpecClient == InitServing /\ [][NextClient]_vars

\* zipcodes of stored records and of searches
StoredZipcodes == {ZipHere, ZipTenMiles, ZipJustOver, ZipShort}
SearchZipcodes == {ZipHere, ZipShort}

\* a record created at time t from a plain body with zipcode z
VigilAt(t, z) ==
    NewVigil(<<t, 0>>, [f \in DOMAIN Body(1) |->
                          IF f = "zipcode" THEN z ELSE Body(1)[f]], t)

\* a store of two records created at times 0 and 1
StoreOfTwo(z0, z1) ==
    [vigils |-> Put(Put(<<>>, <<0, 0>>, VigilAt(0, z0)), <<1, 0>>, VigilAt(1, z1)),
     metadata |-> [lastUpdated |-> 1, totalVigils |-> 2]]

\* The searches of a process that has started and pulled a store of two
\* records: overlapping search handlers, every outcome of every fetch.
InitSearching ==
    /\ keysFile = [exists |-> TRUE, key |-> 1, uuid |-> 1]
    /\ keys = [exists |-> TRUE, key |-> 1, uuid |-> NullUuid]
    /\ bdoUserUUID = 1
    /\ \E z0 \in StoredZipcodes, z1 \in StoredZipcodes :
          /\ vigilsData = StoreOfTwo(z0, z1)
          /\ remote = [e \in Servers |-> [has |-> TRUE, uuid |-> 1,
                                          bdo |-> StoreOfTwo(z0, z1)]]
    /\ now = 1
    /\ pc = "listening"
    /\ initResults = <<>>
    /\ pullIdx = 1
    /\ reqs = [s \in Slots |-> IdleReq]
    /\ response = NoResponse
    /\ startFile = [exists |-> TRUE, key |-> 1, uuid |-> 1]
    /\ createCalls = {}
    /\ updateCalls = {}
    /\ pullLog = <<>>
    /\ pullResult = "none"
    /\ admitted = NoQuery
    /\ restarts = 0
    /\ zipcodeCoordinatesCache = <<>>
    /\ searches = [q \in SearchSlots |-> IdleSearch]
    /\ events = <<>>
    /\ resolved = {}
    /\ submitted = [id \in VigilIds |-> {}]
    /\ localStorage = <<>>
    /\ pushes = NoPushes
    /\ stopped = NeverStopped

NextSearch ==
    \/ \E q \in SearchSlots, zipcode \in SearchZipcodes : SearchVigils(q, zipcode)
    \/ \E q \in SearchSlots, outcome \in Outcomes(ZipHere) :
          LookupReturns(q, outcome)

SpecSearch == InitSearching /\ [][NextSearch]_vars

\* One search at a time while records are deleted: the store of two records
\* changes between the fetches of a search.
NextOverlap ==
    \/ SearchVigils(1, ZipHere)
    \/ \E outcome \in {"ok", "error"} : LookupReturns(1, outcome)
    \/ \E uuid \in VigilIds : DeleteVigil(1, uuid, TRUE, 0, TRUE)
    \/ SyncStep(1)

SpecOverlap == InitSearching /\ [][NextOverlap]_vars

\* a record with key id, created at time id[1] from a plain body with zipcode z
VigilOf(id, z) ==
    NewVigil(id, [f \in DOMAIN Body(1) |->
                    IF f = "zipcode" THEN z ELSE Body(1)[f]], id[1])

\* a store of three records, two of them created in the same millisecond
StoreOfThree(z1, z2, z3) ==
    [vigils |-> Put(Put(Put(<<>>, <<0, 0>>, VigilOf(<<0, 0>>, z1)),
                        <<0, 1>>, VigilOf(<<0, 1>>, z2)),
                    <<1, 0>>, VigilOf(<<1, 0>>, z3)),
     metadata |-> [lastUpdated |-> 1, totalVigils |-> 3]]

SortZipcodes == {ZipHere, ZipNear, ZipTenMiles, ZipShort}

\* One search at a time in a process that has started and pulled a store of
\* three records; a fetch returns the place or fails.
InitSorting ==
    /\ keysFile = [exists |-> TRUE, key |-> 1, uuid |-> 1]
    /\ keys = [exists |-> TRUE, key |-> 1, uuid |-> NullUuid]
    /\ bdoUserUUID = 1
    /\ \E z1 \in SortZipcodes, z2 \in SortZipcodes, z3 \in SortZipcodes :
          /\ vigilsData = StoreOfThree(z1, z2, z3)
          /\ remote = [e \in Servers |-> [has |-> TRUE, uuid |-> 1,
                                          bdo |-> StoreOfThree(z1, z2, z3)]]
    /\ now = 1
    /\ pc = "listening"
    /\ initResults = <<>>
    /\ pullIdx = 1
    /\ reqs = [s \in Slots |-> IdleReq]
    /\ response = NoResponse
    /\ startFile = [exists |-> TRUE, key |-> 1, uuid |-> 1]
    /\ createCalls = {}
    /\ updateCalls = {}
    /\ pullLog = <<>>
    /\ pullResult = "none"
    /\ admitted = NoQuery
    /\ restarts = 0
    /\ zipcodeCoordinatesCache = <<>>
    /\ searches = [q \in SearchSlots |-> IdleSearch]
    /\ events = <<>>
    /\ resolved = {}
    /\ submitted = [id \in VigilIds |-> {}]
    /\ localStorage = <<>>
    /\ pushes = NoPushes
    /\ stopped = NeverStopped

NextSort ==
    \/ SearchVigils(1, ZipHere)
    \/ \E outcome \in {"ok", "error"} : LookupReturns(1, outcome)

SpecSort == InitSorting /\ [][NextSort]_vars

\* The admin requests of such a process, one handler at a time: every
\* combination of parameters, timestamp and signature, on present and absent
\* records.
NextAdmin ==
    \/ CreateVigil(1, Body(1), 0)
    \/ \E uuid \in VigilIds, hasParams \in BOOLEAN, timeDiff \in TimeDiffs,
          sigValid \in BOOLEAN :
          DeleteVigil(1, uuid, hasParams, timeDiff, sigValid)
    \/ SyncStep(1)
    \/ \E hasParams \in BOOLEAN, timeDiff \in TimeDiffs, sigValid \in BOOLEAN :
          AdminPage(hasParams, timeDiff, sigValid)

SpecAdmin == InitServing /\ [][NextAdmin]_vars

\* ==================================================================== claims

\* the count recorded in a snapshot is the number of its entries
CountMatches(store) == store.metadata.totalVigils = Cardinality(DOMAIN store.vigils)

\* C1: in every reachable state (handlers between awaits, during and after the
\* startup pull) metadata.totalVigils of the local store equals the number of
\* entries of its vigils mapping, and so does the count of every snapshot an
\* endpoint was handed by a push or by createUser.
C1_TotalVigilsIsCount ==
    /\ CountMatches(vigilsData)
    /\ \A e \in Servers : remote[e].has => CountMatches(remote[e].bdo)

\* C1 witness: a store of one record restored by the startup pull while another
\* endpoint holds the snapshot pushed after a delete
C1_Witness ==
    /\ pc = "ready"
    /\ pullResult = "loaded"
    /\ Cardinality(DOMAIN Vigils) = 1
    /\ \E e \in Servers : /\ remote[e].has
                          /\ DOMAIN remote[e].bdo.vigils = {}
                          /\ remote[e].bdo.metadata.lastUpdated # NullTime

\* the elements of a sequence
Range(seq) == {seq[i] : i \in DOMAIN seq}

\* C2: a create or delete that reached the push answers 200 iff at least one
\* endpoint accepted the push and 500 iff none did, and the syncedTo list of a
\* 200 names exactly the endpoints that accepted, each once.
C2_SuccessIffOneAccepted ==
    (response.kind \in {"create", "delete"} /\ response.status \in {200, 500}) =>
        /\ response.status = 200 <=> response.accepted # {}
        /\ response.status = 500 <=> response.accepted = {}
        /\ response.status = 200 =>
            /\ Range(response.syncedTo) = response.accepted
            /\ Len(response.syncedTo) = Cardinality(response.accepted)

\* C2 witness: two of the three endpoints rejected the push and the answer is 200
C2_Witness ==
    /\ response.kind \in {"create", "delete"}
    /\ response.status = 200
    /\ Cardinality(response.accepted) = 1

\* the key file the process started with carries a remote identifier
StartedWithUUID == startFile.exists /\ startFile.uuid # NullUuid

\* the uuid argument of every getBDO call so far
PullUuids == {pullLog[i][2] : i \in DOMAIN pullLog}

\* every replication call of this process so far used identifier u
OnlyIdentityUsed(u) ==
    /\ pc # "start" => bdoUserUUID = u
    /\ updateCalls \subseteq {u}
    /\ PullUuids \subseteq {u}

\* C3, as claimed: if a credential file exists at startup, createUser is never
\* called and every push and pull uses the identifier stored in that file.
C3_AnyFileStopsCreation ==
    startFile.exists => (createCalls = {} /\ OnlyIdentityUsed(startFile.uuid))

\* C3, amended: if a credential file that carries a remote identifier exists at
\* startup, createUser is never called and every push and pull of the process
\* uses the identifier stored in that file.
C3_StoredUUIDStopsCreation ==
    StartedWithUUID => (createCalls = {} /\ OnlyIdentityUsed(startFile.uuid))

\* C3 witness: a process that started with a stored identifier has pushed
C3_Witness ==
    /\ StartedWithUUID
    /\ pc = "listening"
    /\ updateCalls # {}

\* C4: once a bootstrap in which createUser succeeded on at least one endpoint
\* has finished, the key file holds the keypair in use together with the
\* identifier in use.
C4_FileHoldsIdentity ==
    (pc \in {"pull", "ready"} /\ createCalls # {}
        /\ \E i \in DOMAIN initResults : initResults[i].success) =>
            /\ keysFile.exists
            /\ keysFile.key = keys.key
            /\ keysFile.uuid # NullUuid
            /\ keysFile.uuid = bdoUserUUID

\* C5: a bootstrap that finds a stored identifier uses it, reports every
\* configured endpoint, in order, as a successful existing initialisation,
\* calls createUser on no endpoint, and leaves the key file as it found it, so
\* that the next bootstrap finds the same identifier.
C5_AdoptStoredIdentity ==
    (StartedWithUUID /\ pc # "start") =>
        /\ bdoUserUUID = startFile.uuid
        /\ createCalls = {}
        /\ keysFile = startFile
        /\ pc \in {"pull", "ready"} =>
            /\ Len(initResults) = NumServers
            /\ \A i \in DOMAIN initResults :
                /\ initResults[i].server = i
                /\ initResults[i].success
                /\ initResults[i].existing
                /\ initResults[i].uuid = startFile.uuid

\* C5 witness: the bootstrap of a restarted process has adopted the identifier
\* a previous process stored
C5_Witness ==
    /\ StartedWithUUID
    /\ restarts > 0
    /\ pc = "ready"
    /\ bdoUserUUID = startFile.uuid

\* the uuid of the first successful entry of the results, null if there is none
FirstSuccessUuid(results) ==
    LET ok == {i \in DOMAIN results : results[i].success} IN
    IF ok = {} THEN NullUuid
    ELSE results[CHOOSE i \in ok : \A j \in ok : i <= j].uuid

C6_DuringBootstrap ==
    (~StartedWithUUID /\ pc \in {"boot", "pull", "ready"}) =>
        /\ bdoUserUUID = FirstSuccessUuid(initResults)
        /\ createCalls = 1..Len(initResults)
        /\ \A i \in DOMAIN initResults : initResults[i].server = i
        /\ pc # "boot" => Len(initResults) = NumServers

C6_IdentityKept ==
    (bdoUserUUID # NullUuid /\ pc' # "start") => bdoUserUUID' = bdoUserUUID

\* C6: without a stored identifier the bootstrap calls createUser on every
\* configured endpoint, in order, whatever failed before; the identity in use
\* is the uuid the first successful endpoint returned, and once set it is not
\* changed by a later endpoint or by any later step of the process.
C6_FirstSuccessDecides == [] C6_DuringBootstrap /\ [][C6_IdentityKept]_vars

\* C6 witness: the first endpoint failed, the second and third succeeded with
\* different uuids
C6_Witness ==
    /\ ~StartedWithUUID
    /\ pc = "ready"
    /\ Len(initResults) = NumServers
    /\ ~initResults[1].success
    /\ initResults[2].success
    /\ initResults[3].success
    /\ initResults[2].uuid # initResults[3].uuid

\* C7: when createUser failed on every endpoint the process goes on with an
\* empty store and no identity, and no updateBDO call is issued while there is
\* no identity.
C7_DegradedPushIsNoOp ==
    /\ (pc = "ready" /\ createCalls = Servers
            /\ \A i \in DOMAIN initResults : ~initResults[i].success) =>
                (vigilsData = EmptyStore /\ bdoUserUUID = NullUuid)
    /\ NullUuid \notin updateCalls

\* C8: the pull asks the endpoints in configured order; every endpoint asked
\* before the last one failed or had no snapshot; when an endpoint returns a
\* snapshot the pull ends there, and the store is exactly what that endpoint
\* holds.
C8_PullFirstSnapshot ==
    pc \in {"pull", "ready"} =>
        /\ \A i \in DOMAIN pullLog : pullLog[i][1] = i
        /\ \A i \in DOMAIN pullLog : i < Len(pullLog) => pullLog[i][3] # "snapshot"
        /\ pc = "pull" => (pullLog = <<>> \/ pullLog[Len(pullLog)][3] # "snapshot")
        /\ pullResult = "loaded" <=>
              (pullLog # <<>> /\ pullLog[Len(pullLog)][3] = "snapshot")
        /\ pullResult = "loaded" => vigilsData = remote[Len(pullLog)].bdo

\* C8 witness: the first endpoint gave no snapshot, the second did, and the
\* third, which was not asked, holds a different one
C8_Witness ==
    /\ pc = "ready"
    /\ pullResult = "loaded"
    /\ Len(pullLog) = 2
    /\ remote[3].has
    /\ remote[3].uuid = bdoUserUUID
    /\ remote[3].bdo # vigilsData

\* C9: when no endpoint returned a snapshot (each failed or had none) or there
\* is no identity, the pull returns not-found if it ran at all, the store is
\* the empty initial store, and the startup goes on to listen.
C9_NotFoundKeepsStore ==
    (pc = "ready" /\ \A i \in DOMAIN pullLog : pullLog[i][3] # "snapshot") =>
        /\ pullResult = (IF pullLog = <<>> THEN "none" ELSE "notfound")
        /\ pullLog # <<>> => Len(pullLog) = NumServers
        /\ vigilsData = EmptyStore
        /\ ENABLED Listen

\* C9 witness: every endpoint was asked, one of them failed although it holds a
\* record, another had no snapshot
C9_Witness ==
    /\ pc = "ready"
    /\ pullResult = "notfound"
    /\ \E e \in Servers : /\ pullLog[e][3] = "error"
                          /\ remote[e].has
                          /\ DOMAIN remote[e].bdo.vigils # {}
    /\ \E e \in Servers : pullLog[e][3] = "empty"

\* this step starts the handler of an admin delete of u whose query carried both
\* parameters, a timestamp that is not more than two minutes off (the window
\* check `timeDiff > twoMinutes` did not fire) and a valid signature
AuthenticatedDeleteOf(u) ==
    /\ \E s \in Slots :
        /\ reqs[s].kind = "idle"
        /\ reqs'[s].kind = "delete"
        /\ reqs'[s].uuid = u
    /\ admitted'.uuid = u
    /\ admitted'.hasParams
    /\ admitted'.sigValid
    /\ (admitted'.timeDiff = NaN \/ admitted'.timeDiff <= TwoMinutes)

\* this step starts the handler of a create that generated identifier u
CreateOf(u) ==
    \E s \in Slots :
        /\ reqs[s].kind = "idle"
        /\ reqs'[s].kind = "create"
        /\ reqs'[s].uuid = u

\* record u is in the store after the step as it was before
Kept(u) == u \in DOMAIN Vigils' /\ Vigils'[u] = Vigils[u]

\* record u is no longer in the store after the step
Removed(u) == u \notin DOMAIN Vigils'

C10_StepAsClaimed ==
    (pc = "listening" /\ pc' = "listening") =>
        \A u \in DOMAIN Vigils :
            \/ Kept(u)
            \/ Removed(u) /\ AuthenticatedDeleteOf(u)

\* C10, as claimed: while the server serves requests a stored record is removed
\* only by an admin delete that passed the timestamp and signature checks, and
\* no request changes a field of a stored record.
C10_RemovedOnlyByAdminNeverAltered == [][C10_StepAsClaimed]_vars

C10_StepAmended ==
    (pc = "listening" /\ pc' = "listening") =>
        \A u \in DOMAIN Vigils :
            \/ Kept(u)
            \/ Removed(u) /\ AuthenticatedDeleteOf(u)
            \/ CreateOf(u) /\ Vigils'[u] = reqs'[CHOOSE s \in Slots :
                                                  reqs'[s].kind = "create" /\
                                                  reqs[s].kind = "idle"].vigil

\* C10, amended: while the server serves requests a stored record is removed
\* only by an admin delete that passed the timestamp and signature checks, and
\* its fields change only when a create generates the record's own identifier
\* again (same Date.now() and same random suffix), which replaces it by the new
\* record; get, count and rejected delete requests change nothing.
C10_RemovedOnlyByAdminAlteredOnlyByCollision == [][C10_StepAmended]_vars

\* C10 witness: a record is in the store and a delete of it has just been
\* rejected for its signature
C10_Witness ==
    /\ pc = "listening"
    /\ DOMAIN Vigils # {}
    /\ response.kind = "delete"
    /\ response.status = 403

\* the timestamp of the query is a time at most two minutes from the server's
WithinWindow(q) == q.timeDiff # NaN /\ q.timeDiff <= TwoMinutes

\* the last step answered an admin request that carried both parameters
AnsweredAdmin == response.kind \in {"admin", "delete"} /\ response.query.hasParams

C11_OnlyInWindowVerified ==
    /\ AnsweredAdmin =>
          /\ response.verified => WithinWindow(response.query)
          /\ ~WithinWindow(response.query) =>
                (response.status = 401 /\ ~response.verified)
    /\ admitted # NoQuery => WithinWindow(admitted)

C11_RejectionKeepsStore ==
    (response'.kind \in {"admin", "delete"} /\ response'.status = 401) =>
        vigilsData' = vigilsData

\* C11: an admin request (page or delete) with both parameters reaches the
\* signature verification only if its timestamp is a time within 120000 ms of
\* the server's; every other one is answered 401 without verification,
\* whatever its signature, and leaves the store as it is.
C11_WindowBeforeSignature ==
    [] C11_OnlyInWindowVerified /\ [][C11_RejectionKeepsStore]_vars

\* the query passes the checks of the delete handler: both parameters, the
\* window check not fired, a valid signature
Authenticated(q) == q.hasParams /\ ~Expired(q.timeDiff) /\ q.sigValid

C12_Step ==
    /\ (response'.kind = "delete" /\ Authenticated(response'.query)
          /\ response'.query.uuid \notin DOMAIN Vigils) =>
            /\ response'.status = 404
            /\ vigilsData' = vigilsData
            /\ reqs' = reqs
            /\ updateCalls' = updateCalls
            /\ remote' = remote
    /\ admitted' # NoQuery => admitted'.uuid \in DOMAIN Vigils

IsFiveDigits(z) == Len(z) = 5 /\ \A i \in 1..Len(z) : z[i] \in 0..9

\* C13: every record in the store has a zipcode that matches the 5-digit
\* numeric pattern, so that a create whose zipcode is missing or malformed
\* stores nothing.
C13_StoredZipcodesWellFormed ==
    \A u \in DOMAIN Vigils : IsFiveDigits(Vigils[u].zipcode)

\* every record other than u is in the store after the step as it was before
OthersKept(u) == \A w \in DOMAIN Vigils \ {u} : Kept(w)

C14_StepAsClaimed ==
    \A u \in VigilIds : CreateOf(u) =>
        /\ u \notin DOMAIN Vigils
        /\ NumKeys(Vigils') = NumKeys(Vigils) + 1
        /\ OthersKept(u)
        /\ Vigils'[u].uuid = u

\* C14, as claimed: every create assigns an identifier that is not a key of the
\* store, adds exactly one record, replaces none, and stores the record with
\* its uuid field equal to its key.
C14_CreateAddsFreshKey == [][C14_StepAsClaimed]_vars

C14_StepAmended ==
    \A u \in VigilIds : CreateOf(u) =>
        /\ NumKeys(Vigils') = NumKeys(Vigils) + (IF u \in DOMAIN Vigils THEN 0 ELSE 1)
        /\ OthersKept(u)
        /\ u \in DOMAIN Vigils'
        /\ Vigils'[u].uuid = u
        /\ \E s \in Slots : /\ reqs[s].kind = "idle"
                             /\ reqs'[s].kind = "create"
                             /\ reqs'[s].vigil = Vigils'[u]

\* C14, amended: a create stores its record under the identifier made of
\* Date.now() and the random suffix without looking it up: if the identifier
\* is not a key of the store the number of records grows by exactly one and no
\* record is replaced; if it is, the record under it is replaced and the
\* number stays; either way every other record stays as it is and the stored
\* record's uuid field equals its key, also when the body has a uuid of its own.
C14_CreateAddsOrReplacesOwnKey == [][C14_StepAmended]_vars

\* C14 witness: a second record has just been added beside the first, from a
\* body that carries its own uuid
C14_Witness ==
    /\ NumKeys(Vigils) = 2
    /\ \E s \in Slots :
          /\ reqs[s].kind = "create"
          /\ reqs[s].results = <<>>
          /\ Vigils[reqs[s].uuid].uuid = reqs[s].uuid
          /\ \E b \in submitted[reqs[s].uuid] :
                "uuid" \in DOMAIN b /\ b.uuid # reqs[s].uuid

\* the record has every field of the body but uuid and createdAt, unchanged
SameFields(v, b) ==
    \A f \in DOMAIN b \ {"uuid", "createdAt"} : f \in DOMAIN v /\ v[f] = b[f]

\* the last step answered a fetch with a record
Fetched == response.kind = "get" /\ response.status = 200

\* C15, as claimed: a fetch of an identifier returns the fields (other than
\* uuid and createdAt) of every create that was given this identifier with no
\* delete of it since.
C15_FetchReturnsSubmitted ==
    Fetched => \A b \in submitted[response.uuid] : SameFields(response.vigil, b)

\* C15, amended: in one process, a fetch of an identifier returns the fields
\* (other than uuid and createdAt) of the create that was given this
\* identifier, if there was no delete of it since and no other create was given
\* the same identifier; if several were, it returns the fields of one of them.
C15_FetchReturnsSubmittedUnlessReplaced ==
    (Fetched /\ submitted[response.uuid] # {}) =>
        /\ \E b \in submitted[response.uuid] : SameFields(response.vigil, b)
        /\ response.vigil.uuid = response.uuid
        /\ response.vigil.createdAt \in Times

\* C15 witness: some time after its creation a record with a null link and a
\* submittedAt of its own has been fetched, and no other create had its
\* identifier
C15_Witness ==
    /\ Fetched
    /\ submitted[response.uuid] = {Body(1)}
    /\ response.vigil.link = 0
    /\ response.vigil.submittedAt = Body(1).submittedAt
    /\ response.vigil.createdAt < now

\* the i-th event of the step is a fetch of zipcode z
FetchAt(i, z) == events'[i].type = "fetch" /\ events'[i].zipcode = z

\* before the i-th event of the step a call of getZipcodeCoordinates(z) had
\* returned (a coordinate, if found is TRUE; anything, if it is FALSE)
ReturnedBefore(i, z, found) ==
    \/ \E f \in (IF found THEN {TRUE} ELSE BOOLEAN) : <<z, f>> \in resolved
    \/ \E j \in 1..(i - 1) :
          /\ events'[j].type \in {"hit", "return"}
          /\ events'[j].zipcode = z
          /\ found => ~events'[j].coords.null

\* a call that finds its zipcode in the cache returns the entry and fetches
\* nothing (the cache is written only before the first event of a step)
C16_HitNeedsNoLookup ==
    \A i \in DOMAIN events' :
        /\ events'[i].type = "fetch" =>
              events'[i].zipcode \notin DOMAIN zipcodeCoordinatesCache'
        /\ events'[i].type = "hit" =>
              /\ events'[i].zipcode \in DOMAIN zipcodeCoordinatesCache'
              /\ events'[i].coords = zipcodeCoordinatesCache'[events'[i].zipcode]

\* C16, as claimed: a call that finds its zipcode in the cache returns the
\* cached coordinate without a fetch, and no zipcode is fetched after a call
\* for it has returned.
C16_SecondResolutionNeverFetches ==
    [][/\ C16_HitNeedsNoLookup
       /\ \A i \in DOMAIN events', z \in StoredZipcodes :
             FetchAt(i, z) => ~ReturnedBefore(i, z, FALSE)]_vars

\* C16, amended: a call that finds its zipcode in the cache returns the cached
\* coordinate without a fetch, and no zipcode is fetched after a call for it
\* has returned a coordinate.
C16_NoFetchAfterCoordinate ==
    [][/\ C16_HitNeedsNoLookup
       /\ \A i \in DOMAIN events', z \in StoredZipcodes :
             FetchAt(i, z) => ~ReturnedBefore(i, z, TRUE)]_vars

\* C16 witness: a search has been answered from the cache alone
C16_Witness ==
    /\ response.kind = "search"
    /\ response.status = 200
    /\ Len(events) = 3
    /\ \A i \in DOMAIN events : events[i].type = "hit"

\* C17: a fetch that ends in any way but a payload with the place makes
\* getZipcodeCoordinates return null and leaves the cache as it is.
C17_FailureNotCached ==
    [][\A i \in DOMAIN events' :
          (events'[i].type = "return" /\ events'[i].outcome # "ok") =>
              /\ events'[i].coords.null
              /\ zipcodeCoordinatesCache' = zipcodeCoordinatesCache]_vars

\* C18: while the process runs, an entry of the cache is never removed and
\* its coordinate never changes, however the handlers overlap.
C18_EntriesNeverChange ==
    [][pc' = "listening" =>
          \A z \in DOMAIN zipcodeCoordinatesCache :
              /\ z \in DOMAIN zipcodeCoordinatesCache'
              /\ zipcodeCoordinatesCache'[z] = zipcodeCoordinatesCache[z]]_vars

\* C19: getZipcodeCoordinates is never called (from the cache or with a fetch)
\* with a zipcode that does not match the 5-digit pattern.
C19_OnlyWellFormedResolved ==
    \A i \in DOMAIN events : IsFiveDigits(events[i].zipcode)

\* the distance, in hundredths of a mile, between the search coordinate and
\* the coordinate the search got for the i-th record
SeenDistance(i) ==
    calculateDistance(response.searchCoords.lat, response.searchCoords.lon,
                      response.seen[i].coords.lat, response.seen[i].coords.lon)

\* the records of the search whose zipcode gave a coordinate not more than 10
\* miles from the search coordinate, by their position
SeenWithin ==
    {i \in DOMAIN response.seen :
        /\ ~response.seen[i].coords.null
        /\ SeenDistance(i) # NaN
        /\ SeenDistance(i) <= 1000}

\* C20: the list of a search holds exactly the stored records whose zipcode
\* gave a coordinate at most 10 miles (unrounded) from the search coordinate,
\* each once, with that distance rounded to one decimal place.
C20_ExactlyWithinUnroundedRadius ==
    (response.kind = "search" /\ response.status = 200) =>
        /\ [i \in DOMAIN response.seen |-> response.seen[i].vigil]
               = ObjectValues(Vigils)
        /\ Len(response.vigils) = Cardinality(SeenWithin)
        /\ \A i \in SeenWithin : \E k \in DOMAIN response.vigils :
              /\ response.vigils[k].vigil = response.seen[i].vigil
              /\ response.vigils[k].distance * 10 - 5 <= SeenDistance(i)
              /\ SeenDistance(i) < response.vigils[k].distance * 10 + 5
        /\ \A k \in DOMAIN response.vigils : \E i \in SeenWithin :
              response.vigils[k].vigil = response.seen[i].vigil

\* C20 witness: of two records, the one exactly 10 miles away is in the list
\* with distance 10.0 and the one 10.04 miles away is not
C20_Witness ==
    /\ response.kind = "search"
    /\ response.status = 200
    /\ Len(response.seen) = 2
    /\ {SeenDistance(1), SeenDistance(2)} = {1000, 1004}
    /\ Len(response.vigils) = 1
    /\ response.vigils[1].distance = 100

\* the position in the store's enumeration of the k-th record of the list
EnumIndex(k) ==
    CHOOSE i \in DOMAIN response.seen :
        response.seen[i].vigil = response.vigils[k].vigil

\* the last step answered a search with a list
Searched == response.kind = "search" /\ response.status = 200

SeenUnresolved == {i \in DOMAIN response.seen : response.seen[i].coords.null}

\* the records of the list
Listed == {response.vigils[k].vigil : k \in DOMAIN response.vigils}

\* C22: a search that went through the stored records answers 200 whatever
\* their zipcodes gave; a record whose zipcode gave no coordinate is not in
\* the list, and every record within the radius is.
C22_UnresolvedRecordOmitted ==
    (response.kind = "search" /\ response.seen # <<>>) =>
        /\ response.status = 200
        /\ \A i \in SeenUnresolved : response.seen[i].vigil \notin Listed
        /\ \A i \in SeenWithin : response.seen[i].vigil \in Listed

\* C22 witness: of two records one has a zipcode that gave no coordinate and
\* the other is within the radius and listed
C22_Witness ==
    /\ Searched
    /\ Len(response.seen) = 2
    /\ SeenUnresolved # {}
    /\ SeenWithin # {}
    /\ Len(response.vigils) = 1

\* the handler in slot s takes the step of its push loop for endpoint e, with
\* updateBDO resolving (ok) or throwing: before the last endpoint it goes on
\* with one more result, after the last one it answers
PushStep(s, e, ok) ==
    /\ reqs[s].kind \in {"create", "delete"}
    /\ Len(reqs[s].results) = e - 1
    /\ IF e < NumServers
       THEN reqs'[s] = [reqs[s] EXCEPT
                          !.results = Append(@, [server |-> e, success |-> ok]),
                          !.accepted = IF ok THEN @ \cup {e} ELSE @]
       ELSE /\ reqs'[s] = IdleReq
            /\ response'.kind = reqs[s].kind
            /\ response'.uuid = reqs[s].uuid
            /\ ok = (e \in response'.accepted)
            /\ response'.accepted \ {e} = reqs[s].accepted

\* C24: a handler that has mutated the store moves only by calling updateBDO
\* on the endpoint after the one it called last, beginning with the first and
\* answering after the last, whatever the calls before returned; a step
\* changes what an endpoint holds only if it is that endpoint's call and the
\* call was accepted.
C24_EveryEndpointOnceInOrder ==
    [][/\ \A s \in Slots :
            (reqs[s].kind # "idle" /\ reqs'[s] # reqs[s]) =>
                \E ok \in BOOLEAN :
                    /\ PushStep(s, Len(reqs[s].results) + 1, ok)
                    /\ \A e \in Servers :
                          remote'[e] # remote[e] =>
                              (e = Len(reqs[s].results) + 1 /\ ok)
       /\ (\A s \in Slots : reqs[s].kind = "idle" \/ reqs'[s] = reqs[s])
              => remote' = remote]_vars

\* C24 witness: a push whose first call failed was answered after the other
\* two endpoints accepted it; the first endpoint holds an older snapshot
C24_Witness ==
    /\ response.kind \in {"create", "delete"}
    /\ response.accepted = {2, 3}
    /\ remote[1].bdo # vigilsData
    /\ remote[2].bdo = vigilsData
    /\ remote[3].bdo = vigilsData

\* the handler in slot s answers 500 in this step
Answers500(s) ==
    /\ reqs[s].kind \in {"create", "delete"}
    /\ reqs'[s] = IdleReq
    /\ response'.kind = reqs[s].kind
    /\ response'.status = 500

\* C26: the step in which a create or delete answers 500 leaves the store as
\* the handler's mutation made it: the created record is stored under its
\* identifier, the deleted one is not in the store, totalVigils is the number
\* of records; and a get answers from the store as it is.
C26_NoRollbackOn500 ==
    [][/\ \A s \in Slots : Answers500(s) =>
             /\ vigilsData' = vigilsData
             /\ vigilsData'.metadata.totalVigils = NumKeys(vigilsData'.vigils)
             /\ reqs[s].kind = "create" =>
                   /\ reqs[s].uuid \in DOMAIN vigilsData'.vigils
                   /\ vigilsData'.vigils[reqs[s].uuid] = reqs[s].vigil
             /\ reqs[s].kind = "delete" =>
                   reqs[s].uuid \notin DOMAIN vigilsData'.vigils
       /\ response'.kind = "get" =>
             IF response'.uuid \in DOMAIN vigilsData'.vigils
             THEN /\ response'.status = 200
                  /\ response'.vigil = vigilsData'.vigils[response'.uuid]
             ELSE response'.status = 404]_vars

\* C26 witness: a create is answered 500 and its record is in the store and
\* at no endpoint
C26_Witness ==
    /\ response.kind = "create"
    /\ response.status = 500
    /\ response.uuid \in DOMAIN Vigils
    /\ \A e \in Servers : response.uuid \notin DOMAIN remote[e].bdo.vigils

\* no request has been handled since the process started
NothingHandled ==
    /\ \A s \in Slots : reqs[s] = IdleReq
    /\ updateCalls = {}
    /\ \A id \in VigilIds : submitted[id] = {}

\* C30: the pull begins only when initializeBDO has returned a result for
\* every endpoint, one of them successful; app.listen comes only after the
\* pull has ended or was skipped; handlers run only after app.listen; so,
\* within one run of the process, the pull replaces the store only while it
\* is the empty store of a process that has handled no request.
C30_PullBeforeListening ==
    [][/\ (pc' = "pull" /\ pc # "pull") =>
             /\ Len(initResults') = NumServers
             /\ successfulInits(initResults') # {}
       /\ (pc' = "ready" /\ pc \in {"start", "boot"}) =>
             /\ Len(initResults') = NumServers
             /\ successfulInits(initResults') = {}
             /\ pullLog' = <<>>
       /\ (pc' = "listening" /\ pc # "listening") =>
             /\ pc = "ready"
             /\ pullResult \in {"loaded", "notfound"} \/ pullLog = <<>>
       /\ (reqs' # reqs /\ pc' # "start") => pc = "listening"
       /\ (pc \in {"boot", "pull", "ready"} /\ pc' # "start"
             /\ vigilsData' # vigilsData) =>
             /\ pc = "pull"
             /\ vigilsData = EmptyStore
             /\ NothingHandled
       /\ (pc = "listening" /\ pc' = "listening") => pullLog' = <<>>]_vars

\* C30 witness: a restarted process listens with the records it pulled
C30_Witness ==
    /\ restarts = 1
    /\ pc = "listening"
    /\ Vigils # <<>>
    /\ NothingHandled

\* C23: the today count of a count response is the number of stored records
\* dated the local calendar date of the server's clock, and the total is the
\* number of stored records.
C23_TodayCountsLocalDate ==
    response.kind = "count" =>
        /\ response.total = NumKeys(Vigils)
        /\ response.today = CountDated(Vigils, response.localDate)

\* the list stored under a key of localStorage
ListUnder(store, key) ==
    IF key \in DOMAIN store THEN JSONparse(store[key]) ELSE <<>>

\* C25: in every list of localStorage each identifier occurs once; a call
\* with an identifier that is in the list under its key changes nothing; and
\* a step changes a list only by appending an identifier that was not in it,
\* so identifiers stay in the order of their first insertion.
C25_LocalIndexIdempotent ==
    /\ [](\A key \in DOMAIN localStorage :
            \A i, j \in DOMAIN ListUnder(localStorage, key) :
                ListUnder(localStorage, key)[i] = ListUnder(localStorage, key)[j]
                    => i = j)
    /\ [][/\ \A n \in RepNames, st \in RepStates, d \in RepDistricts,
              uuid \in ClientUuids :
                (/\ storeAnswerLocally(n, st, d, uuid)
                 /\ Includes(ListUnder(localStorage,
                                       <<"answers_">> \o getRepKey(n, st, d)),
                             uuid))
                    => localStorage' = localStorage
          /\ \A z \in OrgZipcodes, uuid \in ClientUuids :
                (/\ storeOrganizationLocally(z, uuid)
                 /\ Includes(ListUnder(localStorage, <<"orgs_">> \o ZipString(z)), uuid))
                    => localStorage' = localStorage
          /\ \A key \in DOMAIN localStorage' :
                LET old == ListUnder(localStorage, key)
                    new == ListUnder(localStorage', key)
                IN  \/ new = old
                    \/ /\ Len(new) = Len(old) + 1
                       /\ SubSeq(new, 1, Len(old)) = old
                       /\ ~Includes(old, new[Len(new)])
          /\ DOMAIN localStorage \subseteq DOMAIN localStorage']_vars

\* C25 witness: two names that differ in case and spacing share one list, in
\* which two identifiers stand in the order they were stored, the later one
\* first
C25_Witness ==
    /\ DOMAIN localStorage =
          {<<"answers_">> \o getRepKey(<<"a", "_", "b">>, <<"C", "A">>, <<"1">>),
           <<"orgs_">> \o ZipString(ZipHere)}
    /\ ListUnder(localStorage,
                 <<"answers_">> \o getRepKey(<<"A", " ", " ", "B">>,
                                             <<"C", "A">>, <<"1">>)) = <<2, 1>>
    /\ ListUnder(localStorage, <<"orgs_">> \o ZipString(ZipHere)) = <<1>>

\* every create and delete has been answered and no updateBDO call of this
\* process was rejected
AllPushedAndAccepted ==
    /\ \A s \in Slots : reqs[s] = IdleReq
    /\ ~pushes.rejected

\* C27, as claimed: once every create and delete has been answered and every
\* endpoint has accepted every push, every endpoint holds the local store.
C27_EndpointsHoldFinalStore ==
    AllPushedAndAccepted => \A e \in Servers : remote[e].bdo = vigilsData

\* C27, amended: once every create and delete has been answered and every
\* endpoint has accepted every push, an endpoint holds the local store unless
\* the request that reached it last had been made before a request that
\* reached it earlier.
C27_EndpointsInOrderHoldFinalStore ==
    AllPushedAndAccepted =>
        \A e \in Servers \ pushes.stale : remote[e].bdo = vigilsData

\* C27 witness: after overlapping requests, all answered and all accepted,
\* one endpoint was reached out of order and holds an older snapshot while
\* the other two hold the local store
C27_Witness ==
    /\ AllPushedAndAccepted
    /\ response.kind \in {"create", "delete"}
    /\ pushes.stale = {1}
    /\ remote[1].bdo # vigilsData
    /\ remote[2].bdo = vigilsData
    /\ remote[3].bdo = vigilsData

\* the delete of the record under uuid has been answered 200: the record is
\* not in the store, no handler is at work and an endpoint holds a snapshot
\* without it
DeleteCompleted(uuid) ==
    /\ uuid \notin DOMAIN Vigils
    /\ \A s \in Slots : reqs[s] = IdleReq
    /\ \E e \in Servers : uuid \notin DOMAIN remote[e].bdo.vigils

\* C28, as claimed: a search response lists no record whose delete had been
\* answered 200 before the response.
C28_NoDeletedRecordReturned ==
    Searched => \A k \in DOMAIN response.vigils :
                    ~DeleteCompleted(response.vigils[k].vigil.uuid)

\* the records a search handler has read from the store: those it has
\* visited and those it has yet to visit
ReadOf(h) == [i \in DOMAIN h.seen |-> h.seen[i].vigil] \o h.allVigils

\* C28, amended: a search reads the records of the store once, in the step
\* in which the coordinate of its zipcode is there, and visits and lists
\* records of that reading only, whatever is deleted afterwards.
C28_ReturnsRecordsReadAtLoopStart ==
    /\ [](Searched => \A k \in DOMAIN response.vigils :
                          \E i \in DOMAIN response.seen :
                              response.seen[i].vigil = response.vigils[k].vigil)
    /\ [][\A q \in SearchSlots :
            LET h == searches[q]
                after == IF searches'[q].phase = "vigil"
                         THEN ReadOf(searches'[q])
                         ELSE [i \in DOMAIN response'.seen |->
                                  response'.seen[i].vigil]
                goesOn == \/ searches'[q].phase = "vigil"
                          \/ (response'.kind = "search"
                                /\ response'.status = 200)
            IN  /\ (h.phase \in {"idle", "search"} /\ goesOn /\ h # searches'[q])
                      => after = ObjectValues(Vigils)
                /\ (h.phase = "vigil" /\ h # searches'[q])
                      => after = ReadOf(h)]_vars

\* C28 witness: a search lists a record whose delete was answered 200 while
\* the search awaited a fetch
C28_Witness ==
    /\ Searched
    /\ \E k \in DOMAIN response.vigils :
          DeleteCompleted(response.vigils[k].vigil.uuid)

\* a restarted process that found its identity in the key file has ended
\* its pull
Restored ==
    /\ restarts > 0
    /\ pc = "ready"
    /\ HasStoredUUID(startFile)

\* the process stopped with no create or delete in progress, after a push
\* that every endpoint accepted
StoppedInSync == stopped.lastAll /\ stopped.idle

\* C29, as claimed: if the key file holds the identity and the push that
\* ended last before the stop was accepted by every endpoint, the store after
\* the pull is the store as it was at the stop.
C29_RestartRestoresStore ==
    (Restored /\ StoppedInSync) => vigilsData = stopped.store

\* C29, amended: the store after the pull is the snapshot of the first
\* endpoint, in order, that answered with one, and the empty store if none
\* did; where requests are handled one at a time, it is the store as it was
\* at the stop if an endpoint answered with a snapshot and the process had
\* stopped in sync.
C29_RestartRestoresFirstAnswer ==
    Restored =>
        /\ pullResult \in {"loaded", "notfound"}
        /\ \A i \in DOMAIN pullLog :
              /\ pullLog[i][1] = i
              /\ pullLog[i][3] = "snapshot" => i = Len(pullLog)
        /\ pullResult = "loaded" =>
              /\ pullLog # <<>>
              /\ pullLog[Len(pullLog)][3] = "snapshot"
              /\ vigilsData = remote[Len(pullLog)].bdo
        /\ pullResult = "notfound" =>
              /\ Len(pullLog) = NumServers
              /\ pullLog[NumServers][3] # "snapshot"
              /\ vigilsData = EmptyStore
        /\ (pullResult = "loaded" /\ StoppedInSync) =>
              vigilsData = stopped.store

\* C29 witness: a process that stopped in sync with a record in its store is
\* started again; the first endpoint does not answer, the second one does,
\* and the store is as it was
C29_Witness ==
    /\ Restored
    /\ StoppedInSync
    /\ pullResult = "loaded"
    /\ Len(pullLog) = 2
    /\ Vigils # <<>>
    /\ vigilsData = stopped.store

====
